---- MODULE Spec2Model ----
(***************************************************************************)
(* Model of video_converter.py: VideoConverter.__init__, convert_all,      *)
(* convert_single_folder, find_m4s_files, remove_encryption_header and     *)
(* merge_video_audio, over a small file system.  Every file-system or      *)
(* subprocess call that can fail is a nondeterministic choice between its  *)
(* success and its failure.                                                *)
(***************************************************************************)
EXTENDS Integers, Sequences, FiniteSets, TLC

\* ---------------------------------------------------------------- bounds
MaxFiles == 3
MaxLen == 11

\* ------------------------------------------------------ program constants
HEADER == 9
OUTPUT_NAME == "converted_videos"
M4S == ".m4s"
TEMP == ".temp"
MP4 == ".mp4"
VIDEO_SUFFIX == <<"0", "8", "0">>
AUDIO_SUFFIX == <<"2", "8", "0">>

\* ------------------------------------------------------------- the inputs
Folders == {"A", "B"}
PlainFile == "cover.jpg"
NoFolder == "-"
StemSeq == << <<"v", "0", "8", "0">>, <<"0", "8", "0">>,
             <<"a", "2", "8", "0">>, <<"2", "8", "0">>, <<"8", "0">> >>
Stems == {StemSeq[i] : i \in DOMAIN StemSeq}
\* the role each of these stems names: video, audio, neither
VideoStems == {StemSeq[1], StemSeq[2]}
AudioStems == {StemSeq[3], StemSeq[4]}
\* the lengths of the fragment files: longer than, as long as and shorter
\* than the header, and empty
LenSeq == <<MaxLen, HEADER, HEADER - 1, 0, HEADER + 1>>
Shift(folder) == IF folder = "A" THEN 0 ELSE 2
SizeOf(folder, stem) ==
  LET i == CHOOSE k \in DOMAIN StemSeq : StemSeq[k] = stem
  IN  LenSeq[((i - 1 + Shift(folder)) % Len(LenSeq)) + 1]
Sidecar == [stem |-> <<"e", "0", "8", "0">>, suffix |-> ".json"]

Ord(c) ==
  CASE c = "0" -> 48 [] c = "2" -> 50 [] c = "8" -> 56
    [] c = "a" -> 97 [] c = "e" -> 101 [] c = "v" -> 118 [] OTHER -> 63

RECURSIVE OrdSum(_)
OrdSum(s) == IF s = <<>> THEN 0 ELSE Ord(Head(s)) + OrdSum(Tail(s))

\* the bytes of the file with this stem: distinct per stem and per offset
Content(stem, len) == [i \in 1..len |-> (OrdSum(stem) + 7 * i) % 256]

Layouts == {S \in SUBSET Stems : Cardinality(S) <= MaxFiles}

\* what a fragment file of this folder holds before the tool runs
Original(folder, p) == Content(p.stem, SizeOf(folder, p.stem))

FolderOf(folder, S) ==
  [p \in {[stem |-> s, suffix |-> M4S] : s \in S} \cup {Sidecar} |->
     IF p = Sidecar THEN <<>> ELSE Original(folder, p)]

\* ------------------------------------------------------------ the paths
None == [stem |-> <<>>, suffix |-> "None"]

with_suffix(p, suffix) == [p EXCEPT !.suffix = suffix]

endswith(s, suf) ==
  /\ Len(s) >= Len(suf)
  /\ SubSeq(s, Len(s) - Len(suf) + 1, Len(s)) = suf

Remove(dir, p) == [q \in (DOMAIN dir) \ {p} |-> dir[q]]
Put(dir, p, c) == (p :> c) @@ dir
Rename(dir, p, q) == Put(Remove(dir, p), q, dir[p])
Empty == [q \in {} |-> <<>>]

VARIABLES
  rootExists,    \* whether input_dir exists
  entries,       \* input_dir: entry name -> is_dir()
  files,         \* folder name -> (path -> bytes)
  outDir,        \* converted_videos: the folder name of each output
                 \* file -> "earlier" | "muxed" | "partial"
  pc,            \* the position of the run
  pending,       \* entries iterdir() has not yielded yet
  total_folders, success_count,
  cur,           \* folder_path.name of the running convert_single_folder
  m4s_files, video_m4s, audio_m4s, video_temp, audio_temp, success, ret,
  steps,         \* the steps of the running job that completed
  made,          \* the paths those steps created
  cleanupError,  \* which unlink of the cleanup raised
  muxExit,       \* how the ffmpeg process of the running job ended
  calls,         \* folder -> invocations of convert_single_folder, this run
  muxLog,        \* folder -> how each ffmpeg process run for it ended
  result,        \* folder -> what convert_single_folder returned, this run
  raisedAt       \* where an exception left the program

fsVars == <<rootExists, entries, files, outDir>>
loopVars == <<pending, total_folders, success_count>>
jobVars == <<cur, m4s_files, video_m4s, audio_m4s, video_temp, audio_temp,
             success, ret, steps, made, cleanupError, muxExit>>
histVars == <<calls, muxLog, result, raisedAt>>
vars == <<fsVars, pc, loopVars, jobVars, histVars>>

NoJob ==
  /\ cur = NoFolder /\ m4s_files = <<>>
  /\ video_m4s = None /\ audio_m4s = None
  /\ video_temp = None /\ audio_temp = None
  /\ success = "None" /\ ret = "None"
  /\ steps = <<>> /\ made = {} /\ cleanupError = "none" /\ muxExit = "none"

NoHistory ==
  /\ calls = [f \in Folders |-> 0]
  /\ muxLog = [f \in Folders |-> <<>>]
  /\ result = [f \in Folders |-> "None"]
  /\ raisedAt = "none"

\* a folder an earlier run of the tool converted
IsPair(S) ==
  /\ Cardinality(S) = 2
  /\ S \cap VideoStems # {}
  /\ S \cap AudioStems # {}

Init ==
  /\ rootExists \in BOOLEAN
  /\ \E dirs \in SUBSET Folders, earlier \in BOOLEAN, lay \in [Folders -> Layouts] :
       /\ ~rootExists => dirs = {} /\ ~earlier
       /\ \A f \in Folders \ dirs : lay[f] = {}
       /\ entries =
            [n \in (IF rootExists THEN dirs \cup {PlainFile} ELSE {})
                     \cup (IF earlier THEN {OUTPUT_NAME} ELSE {}) |->
               n \in dirs \cup {OUTPUT_NAME}]
       /\ files = [f \in Folders |->
                     IF f \in dirs THEN FolderOf(f, lay[f]) ELSE Empty]
       /\ outDir = [f \in {d \in dirs : earlier /\ IsPair(lay[d])} |-> "earlier"]
  /\ pc = "new"
  /\ pending = {} /\ total_folders = 0 /\ success_count = 0
  /\ NoJob /\ NoHistory

\* ------------------------------------------------------------- __init__
Construct ==
  /\ pc = "new"
  /\ IF rootExists
       THEN /\ entries' = Put(entries, OUTPUT_NAME, TRUE)
            /\ pc' = "constructed"
            /\ UNCHANGED raisedAt
       ELSE /\ pc' = "raised"
            /\ raisedAt' = "__init__"
            /\ UNCHANGED entries
  /\ UNCHANGED <<rootExists, files, outDir, loopVars, jobVars,
                 calls, muxLog, result>>

\* ---------------------------------------------------------- convert_all
\* (mutant) the filter without the comparison of the name
IsInputFolderAnyName(name, isDir) == isDir

\* the filter of the loop over input_dir.iterdir()
IsInputFolder(name, isDir) == isDir /\ name # OUTPUT_NAME

ConvertAllStart ==
  /\ pc = "constructed"
  /\ IF ~rootExists
       THEN pc' = "done" /\ UNCHANGED pending
       ELSE pc' = "loop" /\ pending' = DOMAIN entries
  /\ success_count' = 0
  /\ total_folders' = 0
  /\ UNCHANGED <<fsVars, jobVars, histVars>>

LoopSkip ==
  /\ pc = "loop"
  /\ \E e \in pending :
       /\ ~IsInputFolder(e, entries[e])
       /\ pending' = pending \ {e}
  /\ UNCHANGED <<fsVars, pc, total_folders, success_count, jobVars, histVars>>

LoopEnter ==
  /\ pc = "loop"
  /\ \E e \in pending :
       /\ IsInputFolder(e, entries[e])
       /\ pending' = pending \ {e}
       /\ total_folders' = total_folders + 1
       /\ cur' = e
       /\ calls' = [calls EXCEPT ![e] = @ + 1]
  /\ pc' = "pair"
  /\ UNCHANGED <<fsVars, success_count, m4s_files, video_m4s, audio_m4s,
                 video_temp, audio_temp, success, ret, steps, made,
                 cleanupError, muxExit, muxLog, result, raisedAt>>

LoopEnd ==
  /\ pc = "loop"
  /\ pending = {}
  /\ pc' = "done"
  /\ UNCHANGED <<fsVars, loopVars, jobVars, histVars>>

\* (mutant) every attempted folder counted as converted
CountedAlways(r, count) == count + 1

\* the if/else on convert_single_folder's return value
Counted(r, count) == IF r = "True" THEN count + 1 ELSE count

Return ==
  /\ pc = "ret"
  /\ success_count' = Counted(ret, success_count)
  /\ result' = [result EXCEPT ![cur] = ret]
  /\ pc' = "loop"
  /\ cur' = NoFolder /\ m4s_files' = <<>>
  /\ video_m4s' = None /\ audio_m4s' = None
  /\ video_temp' = None /\ audio_temp' = None
  /\ success' = "None" /\ ret' = "None"
  /\ steps' = <<>> /\ made' = {} /\ cleanupError' = "none"
  /\ muxExit' = "none"
  /\ UNCHANGED <<fsVars, pending, total_folders, calls, muxLog, raisedAt>>

\* an exception nothing catches leaves convert_single_folder, convert_all, main
Raise(where) ==
  /\ pc' = "raised"
  /\ raisedAt' = where

\* ------------------------------------------------------- find_m4s_files
glob(dir) == {p \in DOMAIN dir : p.suffix = M4S}

Orderings(S) ==
  {s \in [1..Cardinality(S) -> S] : \A i, j \in DOMAIN s : i # j => s[i] # s[j]}

\* (mutant) the roles taken from the position in the listing
ClassifyByPosition(list, video_file, audio_file) ==
  IF Len(list) < 2 THEN <<video_file, audio_file>> ELSE <<list[1], list[2]>>

\* the for loop over m4s_files: a later match overwrites an earlier one
RECURSIVE Classify(_, _, _)
Classify(list, video_file, audio_file) ==
  IF list = <<>> THEN <<video_file, audio_file>>
  ELSE LET file == Head(list) IN
       IF endswith(file.stem, VIDEO_SUFFIX)
         THEN Classify(Tail(list), file, audio_file)
       ELSE IF endswith(file.stem, AUDIO_SUFFIX)
         THEN Classify(Tail(list), video_file, file)
       ELSE Classify(Tail(list), video_file, audio_file)

\* (mutant) no check of the number of files
find_m4s_files_any_count(list) ==
  LET c == Classify(list, None, None) IN
  IF c[1] = None \/ c[2] = None THEN <<None, None>> ELSE c

\* the value find_m4s_files returns for a listing
find_m4s_files(list) ==
  IF Len(list) # 2 THEN <<None, None>>
  ELSE LET c == Classify(list, None, None) IN
       IF c[1] = None \/ c[2] = None THEN <<None, None>> ELSE c

\* file.stat() is called for the files whose stem matches a role
Statted(list) ==
  IF Len(list) # 2 THEN {}
  ELSE {list[i] : i \in {j \in DOMAIN list :
          endswith(list[j].stem, VIDEO_SUFFIX) \/ endswith(list[j].stem, AUDIO_SUFFIX)}}

PairWith(list) ==
  LET r == find_m4s_files(list) IN
  /\ m4s_files' = list
  /\ video_m4s' = r[1]
  /\ audio_m4s' = r[2]
  /\ IF r[1] = None \/ r[2] = None
       THEN pc' = "ret" /\ ret' = "False" /\ UNCHANGED steps
       ELSE pc' = "stripV" /\ steps' = Append(steps, "pair") /\ UNCHANGED ret
  /\ UNCHANGED raisedAt

Pair ==
  /\ pc = "pair"
  /\ \/ \E list \in Orderings(glob(files[cur])) : PairWith(list)
     \/ PairWith(<<>>)          \* scandir: PermissionError, which glob swallows
     \/ /\ Raise("glob")        \* scandir: another OSError
        /\ UNCHANGED <<m4s_files, video_m4s, audio_m4s, ret, steps>>
     \/ \E list \in Orderings(glob(files[cur])) :
          /\ Statted(list) # {}
          /\ Raise("stat")      \* file.stat() raises inside the loop
          /\ m4s_files' = list
          /\ UNCHANGED <<video_m4s, audio_m4s, ret, steps>>
  /\ UNCHANGED <<fsVars, loopVars, cur, video_temp, audio_temp, success,
                 made, cleanupError, muxExit, calls, muxLog, result>>

\* --------------------------------------------- remove_encryption_header
\* (mutant) the seek one byte short
seek_read_short(content, pos) ==
  IF pos - 1 >= Len(content) THEN <<>> ELSE SubSeq(content, pos, Len(content))

\* input_file.seek(pos); input_file.read()
seek_read(content, pos) ==
  IF pos >= Len(content) THEN <<>> ELSE SubSeq(content, pos + 1, Len(content))

\* the folder after a call that returns temp_file
Stripped(dir, file_path) ==
  Put(dir, with_suffix(file_path, TEMP), seek_read(dir[file_path], HEADER))

\* the folder after open(temp_file, 'wb') succeeded and write() raised:
\* the temp file exists, truncated
WriteFailed(dir, file_path) == Put(dir, with_suffix(file_path, TEMP), <<>>)

\* ------------------------------------------------ convert_single_folder
video_mp4 == with_suffix(video_temp, MP4)
audio_mp4 == with_suffix(audio_temp, MP4)

Fail ==
  /\ pc' = "ret"
  /\ ret' = "False"
  /\ UNCHANGED raisedAt

StripVideo ==
  /\ pc = "stripV"
  /\ \/ /\ files' = [files EXCEPT ![cur] = Stripped(@, video_m4s)]
        /\ video_temp' = with_suffix(video_m4s, TEMP)
        /\ steps' = Append(steps, "stripV")
        /\ made' = made \cup {with_suffix(video_m4s, TEMP)}
        /\ pc' = "stripA"
        /\ UNCHANGED <<ret, raisedAt>>
     \/ /\ Fail                \* the source cannot be opened or read
        /\ UNCHANGED <<files, video_temp, steps, made>>
     \/ /\ Fail                \* the temp file was opened, the write failed
        /\ files' = [files EXCEPT ![cur] = WriteFailed(@, video_m4s)]
        /\ UNCHANGED <<video_temp, steps, made>>
  /\ UNCHANGED <<rootExists, entries, outDir, loopVars, cur, m4s_files,
                 video_m4s, audio_m4s, audio_temp, success, cleanupError,
                 muxExit, calls, muxLog, result>>

\* (mutant) the video temp file left behind
AudioStripFailedKeep(dir, vtemp) == dir

\* the folder after `video_temp.unlink()` of the failed audio strip
AudioStripFailed(dir, vtemp) == Remove(dir, vtemp)

StripAudio ==
  /\ pc = "stripA"
  /\ \/ /\ files' = [files EXCEPT ![cur] = Stripped(@, audio_m4s)]
        /\ audio_temp' = with_suffix(audio_m4s, TEMP)
        /\ steps' = Append(steps, "stripA")
        /\ made' = made \cup {with_suffix(audio_m4s, TEMP)}
        /\ pc' = "promote"
        /\ UNCHANGED <<ret, raisedAt>>
     \/ \E after \in {files[cur], WriteFailed(files[cur], audio_m4s)} :
          /\ UNCHANGED <<audio_temp, steps, made>>
          /\ \/ /\ Fail
                /\ files' = [files EXCEPT ![cur] = AudioStripFailed(after, video_temp)]
             \/ /\ Raise("unlink")     \* video_temp.unlink() raises
                /\ files' = [files EXCEPT ![cur] = after]
                /\ UNCHANGED ret
  /\ UNCHANGED <<rootExists, entries, outDir, loopVars, cur, m4s_files,
                 video_m4s, audio_m4s, video_temp, success, cleanupError,
                 muxExit, calls, muxLog, result>>

Promote ==
  /\ pc = "promote"
  /\ \/ /\ files' = [files EXCEPT ![cur] =
                       Rename(Rename(@, video_temp, video_mp4), audio_temp, audio_mp4)]
        /\ steps' = Append(steps, "promote")
        /\ made' = made \cup {video_mp4, audio_mp4}
        /\ pc' = "mux"
        /\ UNCHANGED <<ret, raisedAt>>
     \/ /\ Fail                \* video_temp.rename raises
        /\ UNCHANGED <<files, steps, made>>
     \/ /\ Fail                \* audio_temp.rename raises
        /\ files' = [files EXCEPT ![cur] = Rename(@, video_temp, video_mp4)]
        /\ made' = made \cup {video_mp4}
        /\ UNCHANGED steps
  /\ UNCHANGED <<rootExists, entries, outDir, loopVars, cur, m4s_files,
                 video_m4s, audio_m4s, video_temp, audio_temp, success,
                 cleanupError, muxExit, calls, muxLog, result>>

\* ---------------------------------------------------- merge_video_audio
MuxExits == {"zero", "nonzero", "notfound"}

\* True unless subprocess.run raised CalledProcessError or FileNotFoundError
merge_video_audio(exit) == IF exit = "zero" THEN "True" ELSE "False"

\* what ffmpeg -y leaves at output_file: the muxed file when it exits zero,
\* nothing new or a partial file when it exits non-zero, nothing new when
\* the process could not be started
MuxOutputs(out, folder, exit) ==
  CASE exit = "zero" -> {Put(out, folder, "muxed")}
    [] exit = "nonzero" -> {out, Put(out, folder, "partial")}
    [] OTHER -> {out}

Merge ==
  /\ pc = "mux"
  /\ \E exit \in MuxExits :
       /\ muxExit' = exit
       /\ success' = merge_video_audio(exit)
       /\ outDir' \in MuxOutputs(outDir, cur, exit)
  /\ muxLog' = [muxLog EXCEPT ![cur] = Append(@, muxExit')]
  /\ steps' = Append(steps, "mux")
  /\ pc' = "cleanup"
  /\ UNCHANGED <<rootExists, entries, files, loopVars, cur, m4s_files,
                 video_m4s, audio_m4s, video_temp, audio_temp, ret, made,
                 cleanupError, calls, result, raisedAt>>

\* (mutant) the audio file forgotten
CleanedVideoOnly(dir, vmp4, amp4) == Remove(dir, vmp4)

\* the folder after both unlink calls of the cleanup
Cleaned(dir, vmp4, amp4) == Remove(Remove(dir, vmp4), amp4)

\* (mutant) a job that reached the cleanup reported as converted
ReturnedTrue(merged) == "True"

\* what convert_single_folder returns after the cleanup
Returned(merged) == merged

Cleanup ==
  /\ pc = "cleanup"
  /\ \/ /\ files' = [files EXCEPT ![cur] = Cleaned(@, video_mp4, audio_mp4)]
        /\ UNCHANGED cleanupError
     \/ /\ cleanupError' = "video"     \* video_mp4.unlink() raises
        /\ UNCHANGED files
     \/ /\ cleanupError' = "audio"     \* audio_mp4.unlink() raises
        /\ files' = [files EXCEPT ![cur] = Remove(@, video_mp4)]
  /\ steps' = Append(steps, "cleanup")
  /\ ret' = Returned(success)
  /\ pc' = "ret"
  /\ UNCHANGED <<rootExists, entries, outDir, loopVars, cur, m4s_files,
                 video_m4s, audio_m4s, video_temp, audio_temp, success, made,
                 muxExit, calls, muxLog, result, raisedAt>>

Next ==
  \/ Construct \/ ConvertAllStart
  \/ LoopSkip \/ LoopEnter \/ LoopEnd \/ Return
  \/ Pair \/ StripVideo \/ StripAudio \/ Promote \/ Merge \/ Cleanup

Spec == Init /\ [][Next]_vars

\* ------------------------------------------------------------ the claims
PIPELINE == <<"pair", "stripV", "stripA", "promote", "mux", "cleanup">>
Range(seq) == {seq[i] : i \in DOMAIN seq}
IsPrefix(a, b) == Len(a) <= Len(b) /\ SubSeq(b, 1, Len(a)) = a

\* the subdirectories of input_dir that are input folders
InputDirs == {n \in DOMAIN entries : entries[n]} \cap Folders
\* the stems of the fragment files of a folder
Fragments(f) == {p.stem : p \in {q \in DOMAIN files[f] : q.suffix = M4S}}
\* the bytes of `content` from offset 9 on
FromOffset9(content) ==
  [i \in 1..(IF Len(content) >= 9 THEN Len(content) - 9 ELSE 0) |-> content[i + 9]]

\* C1: no error inside convert_single_folder leaves it as an exception, and a
\* run over an existing root ends with every input folder attempted and a
\* boolean returned for each.
C1_FolderErrorsNeverAbort ==
  rootExists =>
    /\ pc # "raised"
    /\ pc = "done" => \A f \in InputDirs : result[f] \in {"True", "False"}

\* C2: with a missing input root, constructing the converter and calling
\* convert_all raises nothing and reports 0 succeeded of 0 attempted with no
\* folder touched.
C2_MissingRootFailsFast ==
  ~rootExists =>
    /\ pc # "raised"
    /\ pc = "done" =>
         /\ success_count = 0 /\ total_folders = 0
         /\ \A f \in Folders : calls[f] = 0

\* C3 (as claimed): when convert_single_folder returns after a failed strip
\* or rename, none of the files its earlier steps created is in the folder.
C3_NoOrphansAfterFailure ==
  (pc = "ret" /\ "mux" \notin Range(steps)) =>
    \A p \in made : p \notin DOMAIN files[cur]

\* C3 (amended): when convert_single_folder returns after a failed audio
\* strip, the video temp file is gone; when it returns after a failed rename,
\* nothing was removed: either both temp files are in the folder, or the
\* promoted video file and the audio temp file are.
C3_AudioStripFailureRemovesVideoTemp ==
  /\ (pc = "ret" /\ steps = <<"pair", "stripV">>) =>
       /\ video_temp \in made
       /\ video_temp \notin DOMAIN files[cur]
  /\ (pc = "ret" /\ steps = <<"pair", "stripV", "stripA">>) =>
       \/ {video_temp, audio_temp} \subseteq DOMAIN files[cur]
       \/ /\ {video_mp4, audio_temp} \subseteq DOMAIN files[cur]
          /\ video_temp \notin DOMAIN files[cur]

C3_Witness ==
  /\ pc = "ret" /\ ret = "False"
  /\ steps = <<"pair", "stripV">>
  /\ with_suffix(audio_m4s, TEMP) \in DOMAIN files[cur]

\* C4 (as claimed): when convert_single_folder returns after the mux step,
\* neither promoted file is in the folder.
C4_PromotedFilesAlwaysDeleted ==
  (pc = "ret" /\ "mux" \in Range(steps)) =>
    /\ video_mp4 \notin DOMAIN files[cur]
    /\ audio_mp4 \notin DOMAIN files[cur]

\* C4 (amended): when convert_single_folder returns after the mux step,
\* whatever the mux result, no temp file is in the folder and both promoted
\* files are gone unless an unlink of the cleanup raised: if the video
\* unlink raised both are still there, if the audio unlink raised the
\* audio file is.
C4_PromotedFilesDeletedUnlessUnlinkFails ==
  (pc = "ret" /\ "mux" \in Range(steps)) =>
    /\ video_temp \notin DOMAIN files[cur]
    /\ audio_temp \notin DOMAIN files[cur]
    /\ cleanupError = "none" =>
         /\ video_mp4 \notin DOMAIN files[cur]
         /\ audio_mp4 \notin DOMAIN files[cur]
    /\ cleanupError = "video" =>
         {video_mp4, audio_mp4} \subseteq DOMAIN files[cur]
    /\ cleanupError = "audio" =>
         /\ video_mp4 \notin DOMAIN files[cur]
         /\ audio_mp4 \in DOMAIN files[cur]

C4_Witness ==
  /\ pc = "ret" /\ ret = "False"
  /\ muxExit = "nonzero"
  /\ cleanupError = "none"
  /\ {p \in DOMAIN files[cur] : p.suffix \in {TEMP, MP4}} = {}

\* C5: when find_m4s_files returns for a listing of exactly two files, one
\* named for the video role and one for the audio role, in either order, it
\* returns the video one as video and the audio one as audio.
C5_PairingAssignsRoles ==
  (/\ pc = "stripV" \/ (pc = "ret" /\ steps = <<>>)
   /\ Len(m4s_files) = 2
   /\ IsPair({m4s_files[1].stem, m4s_files[2].stem})) =>
    /\ steps = <<"pair">> /\ pc = "stripV"
    /\ video_m4s \in Range(m4s_files) /\ video_m4s.stem \in VideoStems
    /\ audio_m4s \in Range(m4s_files) /\ audio_m4s.stem \in AudioStems

C5_Witness ==
  /\ pc = "stripV"
  /\ m4s_files[1].stem \in AudioStems
  /\ m4s_files[2].stem \in VideoStems

\* C6: a folder whose fragment files are not exactly one video and one audio
\* file is never paired: no role is picked, convert_single_folder does not
\* return success, ffmpeg is never run for it, nothing is written to the
\* output directory for it and nothing is created in it.
C6_BadFoldersProduceNothing ==
  \A f \in InputDirs :
    ~IsPair(Fragments(f)) =>
      /\ muxLog[f] = <<>>
      /\ result[f] # "True"
      /\ f \notin DOMAIN outDir
      /\ {p \in DOMAIN files[f] : p.suffix \in {TEMP, MP4}} = {}
      /\ cur = f =>
           /\ pc \in {"pair", "ret", "raised"}
           /\ video_m4s = None /\ audio_m4s = None
           /\ ret # "True"
           /\ steps = <<>>

C6_Witness ==
  /\ pc = "done"
  /\ Fragments("A") = VideoStems /\ result["A"] = "False"
  /\ Cardinality(Fragments("B")) = 3 /\ result["B"] = "False"

\* C7: the output directory is never the folder of a convert_single_folder
\* call and never counted, also when it exists before the run and holds the
\* outputs of an earlier run.
C7_OutputDirNeverConverted ==
  /\ cur # OUTPUT_NAME
  /\ total_folders <= Cardinality(InputDirs)
  /\ total_folders = Cardinality({f \in Folders : calls[f] > 0})

C7_Witness ==
  /\ pc = "done"
  /\ OUTPUT_NAME \in DOMAIN entries
  /\ \E f \in DOMAIN outDir : outDir[f] = "earlier"
  /\ total_folders = 2

\* C8: convert_single_folder is called at most once per input folder and
\* succeeded <= attempted throughout; when the run ends every input folder
\* was called once, attempted is their number and succeeded the number that
\* returned True.  With A a valid pair whose ffmpeg exits zero and B a
\* one-fragment folder: attempted 2, succeeded 1, an output for A, none for B.
C8_CountsMatchFolders ==
  /\ success_count <= total_folders
  /\ \A f \in Folders : calls[f] <= 1
  /\ (pc = "done" /\ rootExists) =>
       /\ \A f \in InputDirs : calls[f] = 1
       /\ total_folders = Cardinality(InputDirs)
       /\ success_count = Cardinality({f \in InputDirs : result[f] = "True"})
  /\ (/\ pc = "done"
      /\ InputDirs = {"A", "B"}
      /\ IsPair(Fragments("A")) /\ muxLog["A"] = <<"zero">>
      /\ Cardinality(Fragments("B")) = 1) =>
       /\ total_folders = 2 /\ success_count = 1
       /\ "A" \in DOMAIN outDir /\ outDir["A"] = "muxed"
       /\ "B" \notin DOMAIN outDir

C8_Witness ==
  /\ pc = "done"
  /\ InputDirs = {"A", "B"}
  /\ IsPair(Fragments("A")) /\ muxLog["A"] = <<"zero">>
  /\ Cardinality(Fragments("B")) = 1
  /\ success_count = 1

\* C9: after a strip that returned, the temp file holds the source's bytes
\* from offset 9 on (nothing when the source has fewer than 9 bytes), and the
\* source is still in the folder with the bytes it had.
C9_StripKeepsBytesFromOffset9 ==
  /\ "stripV" \in Range(steps) /\ pc = "stripA" =>
       /\ files[cur][video_temp] = FromOffset9(Original(cur, video_m4s))
       /\ video_temp = [stem |-> video_m4s.stem, suffix |-> ".temp"]
  /\ "stripA" \in Range(steps) /\ pc = "promote" =>
       /\ files[cur][audio_temp] = FromOffset9(Original(cur, audio_m4s))
       /\ files[cur][video_temp] = FromOffset9(Original(cur, video_m4s))
       /\ audio_temp = [stem |-> audio_m4s.stem, suffix |-> ".temp"]
  /\ "stripV" \in Range(steps) =>
       /\ video_m4s \in DOMAIN files[cur]
       /\ files[cur][video_m4s] = Original(cur, video_m4s)
  /\ "stripA" \in Range(steps) =>
       /\ audio_m4s \in DOMAIN files[cur]
       /\ files[cur][audio_m4s] = Original(cur, audio_m4s)

C9_Witness ==
  /\ pc = "promote"
  /\ Len(files[cur][video_m4s]) > 9 /\ Len(files[cur][video_temp]) = Len(files[cur][video_m4s]) - 9
  /\ Len(files[cur][audio_m4s]) \in 1..8 /\ files[cur][audio_temp] = <<>>

\* C10: the steps of a job run in the order pair, strip video, strip audio,
\* promote, mux, cleanup and a failed step ends the job with False; ffmpeg is
\* run at most once per folder, on the two promoted files holding the stripped
\* bytes; a job that reached the mux returns True iff ffmpeg exited zero, also
\* when an unlink of the cleanup raised.
C10_PipelineOrderAndResult ==
  /\ IsPrefix(steps, PIPELINE)
  /\ \A f \in Folders : Len(muxLog[f]) <= 1
  /\ pc = "cleanup" =>
       /\ muxLog[cur] = <<muxExit>>
       /\ files[cur][video_mp4] = FromOffset9(Original(cur, video_m4s))
       /\ files[cur][audio_mp4] = FromOffset9(Original(cur, audio_m4s))
  /\ (pc = "ret" /\ "mux" \notin Range(steps)) => ret = "False"
  /\ (pc = "ret" /\ "mux" \in Range(steps)) =>
       /\ steps = PIPELINE
       /\ ret = (IF muxExit = "zero" THEN "True" ELSE "False")

C10_Witness ==
  /\ pc = "ret" /\ ret = "True"
  /\ muxExit = "zero"
  /\ cleanupError = "video"
====
